---------------------------- MODULE Spec2Model ----------------------------
(***************************************************************************)
(* A model of ffxiv_pyramid: the generator (generator.py), the data model  *)
(* (model.py), the theme registry (data.py), the serializer (io.py) and    *)
(* the generate / resample commands (cli.py).                              *)
(*                                                                         *)
(* Representation of Python values:                                        *)
(*   - Optional[T] is a sequence of length 0 (None) or 1 (<<x>>).          *)
(*   - A string that is only stored and compared for equality is a TLA+    *)
(*     string.  A team name, which Pyramid.sort orders, is the sequence of *)
(*     its space-free tokens: "Limsa Lominsa Scions" is                    *)
(*     <<"Limsa", "Lominsa", "Scions">>.  Tokens hold no space and the     *)
(*     space sorts below every character of a token, so Python's           *)
(*     code-point order of the joined strings is the lexicographic order   *)
(*     of the token sequences under the code-point order of the tokens.    *)
(*   - A dict is a function whose DOMAIN is its key set.                   *)
(*   - random.Random(seed) is a position in the stream the seed fixes; the *)
(*     stream is chosen draw by draw and remembered, so that a second      *)
(*     generator seeded alike replays it.                                  *)
(***************************************************************************)
EXTENDS Integers, Sequences, FiniteSets, TLC

\* ------------------------------------------------------------------ bounds
MaxTotal == 3       \* most levels and teams of one call (see Weight)
MaxCollide == 2     \* most suffix draws explored for one team
MaxRoman == 12      \* largest level handed to _division_name on its own
MaxHand == 2        \* most divisions of a hand-built pyramid
MaxDoc == 2         \* most divisions of a document read from outside

\* ---------------------------------------------------------------- optionals
None == <<>>
Some(x) == <<x>>
IsNone(o) == Len(o) = 0
Truthy(o) == Len(o) = 1 /\ o[1] # ""
\* Python's `a or b` on Optional[str]: b when a is None or empty.
OrElse(o, default) == IF Truthy(o) THEN o[1] ELSE default

\* ------------------------------------------------------------ data.py
\* The themes, each list cut to its first one or two entries.
THEMES ==
  [ eorzea |->
      [ key |-> "eorzea", region_name |-> "Eorzean", short_prefix |-> "EFL",
        premier_title |-> "Eorzean Premier League",
        championship_title |-> "Grand Company Championship",
        lower_division_title |-> "City-State Division",
        highlight |-> "The heart of the realm where Gridania, Limsa Lominsa, Ul'dah, and Ishgard compete.",
        locations |-> << <<"Gridania">>, <<"Limsa", "Lominsa">> >>,
        mascots |-> << <<"Scions">> >>,
        adjectives |-> << <<"Twin">> >>,
        inspirations |-> << "Scions of the Seventh Dawn" >>,
        notes_templates |->
          << <<"Backed by the ", "{inspiration}", " from ", "{location}", ".">> >> ],
    far_east |->
      [ key |-> "far_east", region_name |-> "Far Eastern", short_prefix |-> "FEF",
        premier_title |-> "Kugane Premier Division",
        championship_title |-> "Hingan Championship",
        lower_division_title |-> "Eastern League",
        highlight |-> "The trading ports of Kugane, the rebel lands of Doma, and the wandering Steppe tribes collide.",
        locations |-> << <<"Kugane">> >>,
        mascots |-> << <<"Sekiseigumi">>, <<"Raen">> >>,
        adjectives |-> << <<"Blossom">> >>,
        inspirations |-> << "Sekiseigumi" >>,
        notes_templates |->
          << <<"Backed by the ", "{inspiration}", " from ", "{location}", ".">>,
             <<"Favoured by sailors of the ", "{inspiration}", ".">> >> ],
    garlemald |->
      [ key |-> "garlemald", region_name |-> "Imperial", short_prefix |-> "IGL",
        premier_title |-> "Imperial Supremacy League",
        championship_title |-> "Praetoriate Championship",
        lower_division_title |-> "Legion Divisions",
        highlight |-> "Reformed Garlean legions and liberated provinces contest the imperial title.",
        locations |-> << <<"Garlemald">> >>,
        mascots |-> << <<"Magitek">> >>,
        adjectives |-> << <<"Adamant">>, <<"Iron">> >>,
        inspirations |-> << "IVth Legion" >>,
        notes_templates |->
          << <<"Former ", "{inspiration}", " unit now focused on footballing glory.">> >> ] ]

\* key.lower().replace("-", "_") on the theme keys a caller passes here.
Lowered(key) ==
  CASE key = "eorzea" -> "eorzea"
    [] key = "Far-East" -> "far_east"
    [] key = "far_east" -> "far_east"
    [] key = "garlemald" -> "garlemald"
    [] key = "nope" -> "nope"
    [] OTHER -> key

ThemeKnown(key) == Lowered(key) \in DOMAIN THEMES
get_theme(key) == THEMES[Lowered(key)]

\* ------------------------------------------------------------ str order
\* Every token of the model in code-point order (capitals before lower case).
TokenOrder ==
  << "Adamant", "Blossom", "Doma", "FC", "Garlemald", "Gridania", "Iron", "Kugane",
     "Limsa", "Lominsa", "Magitek", "Moonlit", "Raen", "Scions",
     "Seedseers", "Sekiseigumi", "Twin", "United" >>

Rank(t) == CHOOSE i \in 1..Len(TokenOrder) : TokenOrder[i] = t

RECURSIVE StrLess(_, _)
\* Python's a < b on two strings given as token sequences.
StrLess(a, b) ==
  IF Len(b) = 0 THEN FALSE
  ELSE IF Len(a) = 0 THEN TRUE
  ELSE IF Rank(a[1]) # Rank(b[1]) THEN Rank(a[1]) < Rank(b[1])
  ELSE StrLess(Tail(a), Tail(b))

RECURSIVE Join(_)
\* " ".join(tokens)
Join(tokens) ==
  IF Len(tokens) = 0 THEN ""
  ELSE IF Len(tokens) = 1 THEN tokens[1]
  ELSE tokens[1] \o " " \o Join(Tail(tokens))

\* ------------------------------------------------------------ model.py
Team(name, location, inspiration, notes) ==
  [name |-> name, location |-> location, inspiration |-> inspiration, notes |-> notes]

Division(level, name, short_name, teams) ==
  [level |-> level, name |-> name, short_name |-> short_name, teams |-> teams]

Pyramid(title, description, divisions, meta, generated_at) ==
  [title |-> title, description |-> description, divisions |-> divisions,
   meta |-> meta, generated_at |-> generated_at]

RECURSIVE InsertTeam(_, _)
\* One step of the stable sort by name: t goes after every team not above it.
InsertTeam(sorted, t) ==
  IF Len(sorted) = 0 THEN <<t>>
  ELSE IF StrLess(t.name, sorted[Len(sorted)].name)
       THEN Append(InsertTeam(SubSeq(sorted, 1, Len(sorted) - 1), t), sorted[Len(sorted)])
       ELSE Append(sorted, t)

RECURSIVE SortTeams(_)
\* division.teams.sort(key=lambda t: t.name)
SortTeams(teams) ==
  IF Len(teams) = 0 THEN <<>>
  ELSE InsertTeam(SortTeams(SubSeq(teams, 1, Len(teams) - 1)), teams[Len(teams)])

RECURSIVE InsertDivision(_, _)
InsertDivision(sorted, d) ==
  IF Len(sorted) = 0 THEN <<d>>
  ELSE IF d.level < sorted[Len(sorted)].level
       THEN Append(InsertDivision(SubSeq(sorted, 1, Len(sorted) - 1), d), sorted[Len(sorted)])
       ELSE Append(sorted, d)

RECURSIVE SortDivisions(_)
\* self.divisions.sort(key=lambda d: d.level)
SortDivisions(divisions) ==
  IF Len(divisions) = 0 THEN <<>>
  ELSE InsertDivision(SortDivisions(SubSeq(divisions, 1, Len(divisions) - 1)),
                      divisions[Len(divisions)])

\* The divisions sorted, their teams left as they are.
SortDivisionsOnly(p) == [p EXCEPT !.divisions = SortDivisions(p.divisions)]

\* Pyramid.sort
PyramidSort(p) ==
  LET ds == SortDivisions(p.divisions)
  IN [p EXCEPT !.divisions =
        [i \in 1..Len(ds) |-> [ds[i] EXCEPT !.teams = SortTeams(ds[i].teams)]]]

\* ------------------------------------------------------------ generator.py
_EXTRA_TEAM_SUFFIXES == << <<"FC">>, <<"United">> >>

RomanNumerals ==
  << <<1000, "M">>, <<900, "CM">>, <<500, "D">>, <<400, "CD">>, <<100, "C">>,
     <<90, "XC">>, <<50, "L">>, <<40, "XL">>, <<10, "X">>, <<9, "IX">>,
     <<5, "V">>, <<4, "IV">>, <<1, "I">> >>

RECURSIVE RomanFrom(_, _)
\* The loops of _roman from numeral i on, with `remaining` left.
RomanFrom(i, remaining) ==
  IF i > Len(RomanNumerals) THEN ""
  ELSE IF remaining >= RomanNumerals[i][1]
       THEN RomanNumerals[i][2] \o RomanFrom(i, remaining - RomanNumerals[i][1])
       ELSE RomanFrom(i + 1, remaining)

RECURSIVE AdditiveFrom(_, _)
\* The same loops over a table without the subtractive pairs (CM, CD, XC, XL, IX, IV).
AdditiveFrom(i, remaining) ==
  IF i > Len(RomanNumerals) THEN ""
  ELSE IF Len(RomanNumerals[i][2]) = 1 /\ remaining >= RomanNumerals[i][1]
       THEN RomanNumerals[i][2] \o AdditiveFrom(i, remaining - RomanNumerals[i][1])
       ELSE AdditiveFrom(i + 1, remaining)

_roman_additive(number) ==
  LET result == AdditiveFrom(1, number)
  IN IF result # "" THEN result ELSE "I"

_roman(number) ==
  LET result == RomanFrom(1, number)
  IN IF result # "" THEN result ELSE "I"

\* custom is Optional[Sequence[str]]
_division_name(theme, level, custom) ==
  IF Len(custom) = 1 /\ Len(custom[1]) > 0 /\ Len(custom[1]) >= level
  THEN custom[1][level]
  ELSE IF level = 1 THEN theme.premier_title
  ELSE IF level = 2 THEN theme.championship_title
  ELSE theme.region_name \o " " \o theme.lower_division_title \o " " \o _roman(level - 2)

LevelText(level) ==
  CASE level = 1 -> "1" [] level = 2 -> "2" [] level = 3 -> "3" [] level = 4 -> "4"
    [] level = 5 -> "5" [] level = 6 -> "6" [] OTHER -> "?"

_short_name(theme, level) == theme.short_prefix \o " L" \o LevelText(level)

RECURSIVE Format(_, _, _)
\* notes_template.format(inspiration=inspiration, location=location)
Format(template, inspiration, location) ==
  IF Len(template) = 0 THEN ""
  ELSE (CASE template[1] = "{inspiration}" -> inspiration
          [] template[1] = "{location}" -> Join(location)
          [] OTHER -> template[1])
       \o Format(Tail(template), inspiration, location)


\* generate_pyramid's meta: the generated keys, then custom_division_names
\* when the custom names are truthy, then extra_meta over everything.
GeneratedMeta(theme, seed, level_sizes, custom) ==
  LET meta == [ theme |-> theme.key, seed |-> seed, levels |-> level_sizes,
                short_prefix |-> theme.short_prefix,
                generated_using |-> "ffxiv_pyramid" ]
  IN IF Len(custom) = 1 /\ Len(custom[1]) > 0
     THEN meta @@ [custom_division_names |-> custom[1]]
     ELSE meta

\* The keys of `meta` win: extra_meta merged first.
DictSetDefault(meta, other) ==
  [k \in DOMAIN meta \cup DOMAIN other |-> IF k \in DOMAIN meta THEN meta[k] ELSE other[k]]

\* dict.update: the keys of `other` win.
DictUpdate(meta, other) ==
  [k \in DOMAIN meta \cup DOMAIN other |-> IF k \in DOMAIN other THEN other[k] ELSE meta[k]]

BuildMeta(theme, seed, level_sizes, custom, extra_meta) ==
  LET meta == GeneratedMeta(theme, seed, level_sizes, custom)
  IN IF Len(extra_meta) = 1 /\ DOMAIN extra_meta[1] # {}
     THEN DictUpdate(meta, extra_meta[1])
     ELSE meta

\* datetime.utcnow() at clock tick c (half seconds).
UtcNow(c) == [sec |-> c \div 2, micro |-> (c % 2) * 500000]

\* rng.random() in hundredths: one value on each side of the 0.55 threshold.
RandomValues == {54, 55}
TwoWordBelow == 55

\* ------------------------------------------------------------ io.py
\* A JSON value found under "level": an int, a float (in tenths), a string
\* or null.
JInt(i) == [t |-> "int", i |-> i, s |-> ""]
JFloat(tenths) == [t |-> "float", i |-> tenths, s |-> ""]
JStr(s) == [t |-> "str", i |-> 0, s |-> s]
JNull == [t |-> "null", i |-> 0, s |-> ""]

\* The strings int() reads as an integer, among those the documents here hold.
IntText == [s \in {"2", " 1 ", "-1"} |-> CASE s = "2" -> 2 [] s = " 1 " -> 1 [] OTHER -> -1]

\* The exception int(v) raises, or "none".
IntError(v) ==
  CASE v.t = "null" -> "TypeError"
    [] v.t = "str" /\ v.s \notin DOMAIN IntText -> "ValueError"
    [] OTHER -> "none"

\* int(v): a float is cut towards zero.
ToInt(v) ==
  CASE v.t = "int" -> v.i
    [] v.t = "float" -> IF v.i >= 0 THEN v.i \div 10 ELSE -((-v.i) \div 10)
    [] OTHER -> IntText[v.s]

\* dict.get(key, default)
Get(d, key, default) == IF key \in DOMAIN d THEN d[key] ELSE default

\* isoformat(timespec="seconds"): the fraction is never written.
IsoFormatSeconds(dt) == [sec |-> dt.sec, frac |-> None]

\* datetime.isoformat(): the fraction is written only when it is not zero.
IsoFormat(dt) ==
  [sec |-> dt.sec, frac |-> IF dt.micro = 0 THEN None ELSE Some(dt.micro)]

\* datetime.fromisoformat(text)
FromIsoFormat(text) ==
  [sec |-> text.sec, micro |-> IF IsNone(text.frac) THEN 0 ELSE text.frac[1]]

pyramid_to_dict(p) ==
  [ title |-> p.title,
    description |-> p.description,
    generated_at |-> IF ~IsNone(p.generated_at) THEN Some(IsoFormat(p.generated_at[1]))
                     ELSE None,
    meta |-> p.meta,
    divisions |->
      [ i \in 1..Len(p.divisions) |->
          [ level |-> JInt(p.divisions[i].level),
            name |-> p.divisions[i].name,
            short_name |-> p.divisions[i].short_name,
            teams |->
              [ j \in 1..Len(p.divisions[i].teams) |->
                  [ name |-> p.divisions[i].teams[j].name,
                    location |-> p.divisions[i].teams[j].location,
                    inspiration |-> p.divisions[i].teams[j].inspiration,
                    notes |-> p.divisions[i].teams[j].notes ] ] ] ] ]

RECURSIVE FirstError(_)
\* The first exception of a sequence of outcomes, or "none".
FirstError(outcomes) ==
  IF Len(outcomes) = 0 THEN "none"
  ELSE IF outcomes[1] # "none" THEN outcomes[1]
  ELSE FirstError(Tail(outcomes))

\* Lines 44-60 for one division: its teams first, then level, then name.
DivisionError(division_data) ==
  LET team_list == Get(division_data, "teams", <<>>)
  IN FirstError(
       [ j \in 1..Len(team_list) |->
           IF "name" \in DOMAIN team_list[j] THEN "none" ELSE "KeyError" ]
       \o << IF "level" \notin DOMAIN division_data THEN "KeyError"
             ELSE IntError(division_data["level"]),
             IF "name" \in DOMAIN division_data THEN "none" ELSE "KeyError" >>)

\* The exception dict_to_pyramid raises on `data`, or "none".
DictError(data) ==
  LET division_list == Get(data, "divisions", <<>>)
  IN FirstError([ i \in 1..Len(division_list) |-> DivisionError(division_list[i]) ])

TeamOf(team_data) ==
  Team(team_data["name"], Get(team_data, "location", <<>>),
       Get(team_data, "inspiration", ""), Get(team_data, "notes", None))

DivisionOf(division_data) ==
  LET team_list == Get(division_data, "teams", <<>>)
  IN Division(ToInt(division_data["level"]), division_data["name"],
              Get(division_data, "short_name", None),
              [ j \in 1..Len(team_list) |-> TeamOf(team_list[j]) ])

\* What dict_to_pyramid returns on a document it raises nothing on.
dict_to_pyramid(data) ==
  LET division_list == Get(data, "divisions", <<>>)
      generated_at == Get(data, "generated_at", None)
  IN PyramidSort(
       Pyramid(Get(data, "title", "Unnamed Pyramid"),
               Get(data, "description", ""),
               [ i \in 1..Len(division_list) |-> DivisionOf(division_list[i]) ],
               Get(data, "meta", <<>>),
               IF ~IsNone(generated_at) THEN Some(FromIsoFormat(generated_at[1]))
               ELSE None))

\* ------------------------------------------------------------ state
VARIABLES
  pc,          \* where generate_pyramid stands
  args,        \* its arguments
  idx,         \* the level being built (enumerate(level_sizes, start=1))
  teams,       \* the teams of that level built so far
  divisions,   \* the divisions built so far
  used_names,  \* the names taken in this pyramid
  cur,         \* _build_team's locals
  rng,         \* the next position of the seeded stream
  stream,      \* the stream as drawn so far: <<kind, value>> per draw
  clock,       \* the system clock
  pyramid,     \* Optional[Pyramid]: what the last call returned
  err,         \* the exception the last call raised, or "none"
  first,       \* Optional[Pyramid]: what the first of two equal calls returned
  doc,         \* Optional[dict]: the document at hand
  source,      \* Optional[Pyramid]: the pyramid the document was made from
  naming,      \* _division_name called on its own: its arguments and result
  building,    \* the naming loop of _build_team on its own: used_names, base_name, name
  cli,         \* Namespace: the parsed command line of one run of the program
  files,       \* the file system: path -> Optional[text]
  cpc,         \* where the command handler stands
  outcome      \* the exception that ended the run, if one did

gen_locals == <<idx, teams, divisions, used_names, cur, rng, stream>>
io_vars == <<doc, source>>
cli_vars == <<cli, files, cpc, outcome>>
others == <<doc, source, naming, building, cli, files, cpc, outcome>>
vars == <<pc, args, idx, teams, divisions, used_names, cur, rng, stream, clock,
          pyramid, err, first, others>>

NoTeam ==
  [location |-> <<>>, mascot |-> <<>>, adjective |-> <<>>, base_name |-> <<>>,
   name |-> <<>>, inspiration |-> "", attempts |-> 0]

NoBuilding == [used_names |-> {}, base_name |-> <<>>, name |-> <<>>, named |-> TRUE]

NoNaming == [theme |-> "eorzea", level |-> 1, custom |-> None, out |-> None]

NoArgs ==
  [level_sizes |-> <<>>, theme |-> "eorzea", seed |-> None, title |-> None,
   description |-> None, custom |-> None, extra_meta |-> None]

ThemeObj == get_theme(args.theme)

\* ------------------------------------------------------------ inputs
RECURSIVE Weight(_)
\* What a level_sizes costs to explore: one per team, one per level without.
Weight(s) ==
  IF Len(s) = 0 THEN 0
  ELSE (IF s[1] > 0 THEN s[1] ELSE 1) + Weight(Tail(s))

LevelSizeInputs ==
  { s \in UNION { [1..n -> -1..MaxTotal] : n \in 0..MaxTotal } : Weight(s) <= MaxTotal }

\* What a caller passes beside level_sizes.
CallInputs ==
  { [theme |-> "garlemald", seed |-> Some(42), title |-> None, description |-> None,
     custom |-> None, extra_meta |-> None],
    [theme |-> "Far-East", seed |-> None, title |-> Some("Cup"), description |-> Some(""),
     custom |-> Some(<<"Top Flight">>),
     extra_meta |-> Some([resampled_from |-> "old.json"])],
    [theme |-> "eorzea", seed |-> Some(42), title |-> Some(""),
     description |-> Some("Friendly"), custom |-> Some(<<>>),
     extra_meta |-> Some([seed |-> Some(7), note |-> "kept"])],
    [theme |-> "garlemald", seed |-> Some(7), title |-> None, description |-> None,
     custom |-> Some(<<"", "Second Tier", "Third Tier">>),
     extra_meta |-> Some(<<>>)],
    [theme |-> "eorzea", seed |-> None, title |-> None, description |-> None,
     custom |-> Some(<<"Top Flight">>),
     extra_meta |-> Some([custom_division_names |-> <<"Elsewhere">>, theme |-> "custom"])],
    [theme |-> "nope", seed |-> Some(42), title |-> None, description |-> None,
     custom |-> None, extra_meta |-> None] }

GenArgs ==
  { [level_sizes |-> s, theme |-> c.theme, seed |-> c.seed, title |-> c.title,
     description |-> c.description, custom |-> c.custom, extra_meta |-> c.extra_meta] :
    s \in LevelSizeInputs, c \in CallInputs }

\* ------------------------------------------------------------ the stream
\* A draw of `kind` (0: random(); n > 0: _randbelow(n), as choice makes on a
\* list of n) replays the stream where the stream already holds such a draw
\* at this position, and is free otherwise.
Replays(kind) == rng <= Len(stream) /\ stream[rng][1] = kind

Drawable(kind, values) == IF Replays(kind) THEN {stream[rng][2]} ELSE values

Consume(kind, v) ==
  /\ rng' = rng + 1
  /\ stream' = IF Replays(kind) THEN stream
               ELSE Append(SubSeq(stream, 1, rng - 1), <<kind, v>>)

\* The module-level generator instead: it carries on where the last call stopped.
SharedRandomStart(seed, pos) == pos

\* random.Random(seed): a generator of its own, at the start of the stream.
RandomStart(seed, pos) == 1

\* The stream a seed fixes; None seeds from the system's entropy.
SeedStream(seed, old) == IF IsNone(seed) THEN <<>> ELSE old

\* ------------------------------------------------------------ generate_pyramid
Raise(e) ==
  /\ pc' = "raised"
  /\ err' = e
  /\ pyramid' = None

\* Lines 99-107: the checks, the theme, the generator, the empty collections.
Enter(a) ==
  /\ args' = a
  /\ IF Len(a.level_sizes) = 0
     THEN Raise("ValueError") /\ UNCHANGED gen_locals
     ELSE IF ~ThemeKnown(a.theme)
     THEN Raise("KeyError") /\ UNCHANGED gen_locals
     ELSE /\ pc' = "division"
          /\ err' = "none"
          /\ pyramid' = None
          /\ rng' = RandomStart(a.seed, rng)
          /\ stream' = SeedStream(a.seed, stream)
          /\ used_names' = {}
          /\ divisions' = <<>>
          /\ idx' = 1
          /\ teams' = <<>>
          /\ cur' = NoTeam

Call ==
  /\ pc = "idle"
  /\ \E a \in GenArgs : Enter(a)
  /\ UNCHANGED <<clock, first, others>>

\* The division of level idx with the teams ts, appended.
WithDivision(ts) ==
  Append(divisions,
         Division(idx, _division_name(ThemeObj, idx, args.custom),
                  Some(_short_name(ThemeObj, idx)), ts))

\* _build_division for a level whose range(team_count) is empty, or the
\* start of its first team.
BuildDivision ==
  /\ pc = "division"
  /\ idx <= Len(args.level_sizes)
  /\ IF args.level_sizes[idx] <= 0
     THEN /\ divisions' = WithDivision(<<>>)
          /\ idx' = idx + 1
          /\ pc' = "division"
          /\ UNCHANGED teams
     ELSE /\ teams' = <<>>
          /\ pc' = "location"
          /\ UNCHANGED <<divisions, idx>>
  /\ UNCHANGED <<args, used_names, cur, rng, stream, clock, pyramid, err, first, others>>

DrawLocation ==
  /\ pc = "location"
  /\ \E i \in Drawable(Len(ThemeObj.locations), 1..Len(ThemeObj.locations)) :
       /\ Consume(Len(ThemeObj.locations), i)
       /\ cur' = [NoTeam EXCEPT !.location = ThemeObj.locations[i]]
  /\ pc' = "mascot"
  /\ UNCHANGED <<args, idx, teams, divisions, used_names, clock, pyramid, err, first, others>>

DrawMascot ==
  /\ pc = "mascot"
  /\ \E i \in Drawable(Len(ThemeObj.mascots), 1..Len(ThemeObj.mascots)) :
       /\ Consume(Len(ThemeObj.mascots), i)
       /\ cur' = [cur EXCEPT !.mascot = ThemeObj.mascots[i]]
  /\ pc' = "adjective"
  /\ UNCHANGED <<args, idx, teams, divisions, used_names, clock, pyramid, err, first, others>>

DrawAdjective ==
  /\ pc = "adjective"
  /\ \E i \in Drawable(Len(ThemeObj.adjectives), 1..Len(ThemeObj.adjectives)) :
       /\ Consume(Len(ThemeObj.adjectives), i)
       /\ cur' = [cur EXCEPT !.adjective = ThemeObj.adjectives[i]]
  /\ pc' = "form"
  /\ UNCHANGED <<args, idx, teams, divisions, used_names, clock, pyramid, err, first, others>>

\* Line 60: the two-word name below the threshold, else the three-word name.
BaseName(c, r) ==
  IF r < TwoWordBelow THEN c.location \o c.mascot
  ELSE c.location \o c.adjective \o c.mascot

DrawForm ==
  /\ pc = "form"
  /\ \E r \in Drawable(0, RandomValues) :
       /\ Consume(0, r)
       /\ cur' = [cur EXCEPT !.base_name = BaseName(cur, r), !.name = BaseName(cur, r)]
  /\ pc' = "unique"
  /\ UNCHANGED <<args, idx, teams, divisions, used_names, clock, pyramid, err, first, others>>

\* The names of the division being built only.
NameTakenInDivision(n, used) == \E j \in 1..Len(teams) : teams[j].name = n

\* Lines 62-64: one turn of the loop, taken while the name is in use.
NameTaken(n, used) == n \in used

\* A loop that takes the suffixes in list order and draws nothing.
DrawSuffixUndrawn ==
  /\ pc = "unique"
  /\ NameTaken(cur.name, used_names)
  /\ cur.attempts < MaxCollide
  /\ cur' = [cur EXCEPT
               !.name = cur.base_name
                        \o _EXTRA_TEAM_SUFFIXES[(cur.attempts % Len(_EXTRA_TEAM_SUFFIXES)) + 1],
               !.attempts = cur.attempts + 1]
  /\ UNCHANGED <<pc, args, idx, teams, divisions, used_names, rng, stream, clock, pyramid,
                 err, first, others>>

DrawSuffix ==
  /\ pc = "unique"
  /\ NameTaken(cur.name, used_names)
  /\ cur.attempts < MaxCollide
  /\ \E i \in Drawable(Len(_EXTRA_TEAM_SUFFIXES), 1..Len(_EXTRA_TEAM_SUFFIXES)) :
       /\ Consume(Len(_EXTRA_TEAM_SUFFIXES), i)
       /\ cur' = [cur EXCEPT !.name = cur.base_name \o _EXTRA_TEAM_SUFFIXES[i],
                             !.attempts = cur.attempts + 1]
  /\ UNCHANGED <<pc, args, idx, teams, divisions, used_names, clock, pyramid, err, first, others>>

\* Lines 65-66: the loop left, the name taken, the inspiration drawn.
DrawInspiration ==
  /\ pc = "unique"
  /\ ~NameTaken(cur.name, used_names)
  /\ used_names' = used_names \cup {cur.name}
  /\ \E i \in Drawable(Len(ThemeObj.inspirations), 1..Len(ThemeObj.inspirations)) :
       /\ Consume(Len(ThemeObj.inspirations), i)
       /\ cur' = [cur EXCEPT !.inspiration = ThemeObj.inspirations[i]]
  /\ pc' = "template"
  /\ UNCHANGED <<args, idx, teams, divisions, clock, pyramid, err, first, others>>

\* Lines 67-69, and _build_division's return when this was its last team.
DrawTemplate ==
  /\ pc = "template"
  /\ \E i \in Drawable(Len(ThemeObj.notes_templates), 1..Len(ThemeObj.notes_templates)) :
       LET notes == Format(ThemeObj.notes_templates[i], cur.inspiration, cur.location)
           team == Team(cur.name, cur.location, cur.inspiration, Some(notes))
           ts == Append(teams, team)
       IN /\ Consume(Len(ThemeObj.notes_templates), i)
          /\ IF Len(ts) < args.level_sizes[idx]
             THEN /\ teams' = ts
                  /\ pc' = "location"
                  /\ UNCHANGED <<divisions, idx>>
             ELSE /\ divisions' = WithDivision(ts)
                  /\ idx' = idx + 1
                  /\ teams' = <<>>
                  /\ pc' = "division"
  /\ UNCHANGED <<args, used_names, cur, clock, pyramid, err, first, others>>

\* Lines 120-143: title, description, meta, the timestamp, the sort.
Built ==
  PyramidSort(
    Pyramid(OrElse(args.title, ThemeObj.region_name \o " Football Pyramid"),
            OrElse(args.description, ThemeObj.highlight),
            divisions,
            BuildMeta(ThemeObj, args.seed, args.level_sizes, args.custom, args.extra_meta),
            Some(UtcNow(clock))))

Return ==
  /\ pc = "division"
  /\ idx > Len(args.level_sizes)
  /\ pyramid' = Some(Built)
  /\ clock' = clock + 1
  /\ pc' = "done"
  /\ UNCHANGED <<args, idx, teams, divisions, used_names, cur, rng, stream, err, first, others>>

\* A second, independent call with the arguments of the first, made by a
\* caller that fixed the seed.
CallAgain ==
  /\ pc = "done"
  /\ IsNone(first)
  /\ ~IsNone(args.seed)
  /\ first' = pyramid
  /\ Enter(args)
  /\ UNCHANGED <<clock, others>>

\* ------------------------------------------------------------ hand-built pyramids
HandTeamA == Team(<<"Gridania", "Scions">>, <<"Gridania">>, "Scions of the Seventh Dawn",
                  Some("Founded by veterans of the Scions of the Seventh Dawn."))
HandTeamA2 == Team(<<"Gridania", "Scions">>, <<"Limsa", "Lominsa">>, "", Some(""))
HandTeamB == Team(<<"Doma", "Sekiseigumi">>, <<"Doma">>, "Sekiseigumi", None)
HandTeamC == Team(<<"Gridania", "Scions", "FC">>, <<>>, "Sekiseigumi", None)

HandDivisions ==
  { Division(2, "Second", Some("S2"), <<HandTeamA, HandTeamB>>),
    Division(1, "Top", None, <<HandTeamC, HandTeamA, HandTeamA2>>),
    Division(1, "Top", Some(""), <<HandTeamA2, HandTeamA>>),
    Division(2, "Other", None, <<>>),
    Division(-1, "Below", Some("B"), <<HandTeamC, HandTeamB>>),
    Division(3, "", None, <<HandTeamB>>) }

HandHeads ==
  { [title |-> "", description |-> "", meta |-> <<>>, generated_at |-> None],
    [title |-> "Cup", description |-> "Friendly", meta |-> [theme |-> "eorzea"],
     generated_at |-> Some([sec |-> 5, micro |-> 0])],
    [title |-> "Unnamed Pyramid", description |-> "", meta |-> [levels |-> <<1, 2>>],
     generated_at |-> Some([sec |-> 5, micro |-> 250000])] }

HandBuilt ==
  { Pyramid(h.title, h.description, ds, h.meta, h.generated_at) :
    h \in HandHeads, ds \in UNION { [1..n -> HandDivisions] : n \in 0..MaxHand } }

\* ------------------------------------------------------------ documents
Without(d, keys) == [k \in DOMAIN d \ keys |-> d[k]]

DocTeamA == [name |-> <<"Gridania", "Scions">>, location |-> <<"Gridania">>,
             inspiration |-> "Scions of the Seventh Dawn", notes |-> Some("Old guard.")]
DocTeamB == [name |-> <<"Doma", "Sekiseigumi">>, location |-> <<"Doma">>,
             inspiration |-> "Sekiseigumi", notes |-> None]
DocTeamBare == [name |-> <<"Gridania", "Scions", "FC">>]
DocTeamNameless == [location |-> <<"Doma">>, inspiration |-> "Sekiseigumi"]

DocDivisions ==
  { [level |-> JInt(2), name |-> "Second", short_name |-> Some("S2"),
     teams |-> <<DocTeamA, DocTeamB>>],
    [level |-> JStr("2"), name |-> "Two", teams |-> <<DocTeamA>>],
    [level |-> JInt(1), name |-> "Top", short_name |-> None,
     teams |-> <<DocTeamBare, DocTeamA, DocTeamB>>],
    [level |-> JFloat(15), name |-> "Float"],
    [level |-> JStr(" 1 "), name |-> "Padded", short_name |-> Some(""),
     teams |-> <<DocTeamB>>],
    [level |-> JStr("abc"), name |-> "Bad", teams |-> <<>>],
    [level |-> JNull, name |-> "Null", teams |-> <<DocTeamA>>],
    [name |-> "Unlevelled", teams |-> <<DocTeamA>>],
    [level |-> JInt(1), teams |-> <<DocTeamB>>],
    [level |-> JInt(3), name |-> "Third", teams |-> <<DocTeamA, DocTeamNameless>>] }

DocHeads ==
  { [title |-> "Cup", description |-> "Friendly",
     generated_at |-> Some([sec |-> 5, frac |-> Some(250000)]),
     meta |-> [theme |-> "eorzea"]],
    [title |-> "", generated_at |-> None],
    <<>> }

DocInputs ==
  { h @@ [divisions |-> ds] :
    h \in DocHeads, ds \in UNION { [1..n -> DocDivisions] : n \in 0..MaxDoc } }
  \cup DocHeads

\* ------------------------------------------------------------ the serializer's callers
\* A caller builds a pyramid by hand.
BuildByHand ==
  /\ pc = "idle"
  /\ \E p \in HandBuilt : pyramid' = Some(p)
  /\ pc' = "built"
  /\ UNCHANGED <<args, gen_locals, clock, err, first, others>>

\* pyramid_to_dict on the pyramid at hand.
ToDict ==
  /\ pc \in {"built", "done"}
  /\ doc' = Some(pyramid_to_dict(pyramid[1]))
  /\ source' = pyramid
  /\ pc' = "dumped"
  /\ UNCHANGED <<args, gen_locals, clock, pyramid, err, first, naming, building, cli_vars>>

\* A document arrives from outside.
ReadDoc ==
  /\ pc = "idle"
  /\ \E d \in DocInputs : doc' = Some(d)
  /\ source' = None
  /\ pc' = "document"
  /\ UNCHANGED <<args, gen_locals, clock, pyramid, err, first, naming, building, cli_vars>>

\* A reader that drops the divisions it cannot read and returns the rest.
FromDictLenient ==
  /\ pc \in {"dumped", "document"}
  /\ LET data == doc[1]
         kept == SelectSeq(Get(data, "divisions", <<>>),
                           LAMBDA d : DivisionError(d) = "none")
         readable == [k \in DOMAIN data |-> IF k = "divisions" THEN kept ELSE data[k]]
     IN pyramid' = Some(dict_to_pyramid(readable))
  /\ err' = "none"
  /\ pc' = "parsed"
  /\ UNCHANGED <<args, gen_locals, clock, first, others>>

\* dict_to_pyramid on the document at hand.
FromDict ==
  /\ pc \in {"dumped", "document"}
  /\ IF DictError(doc[1]) = "none"
     THEN /\ pyramid' = Some(dict_to_pyramid(doc[1]))
          /\ err' = "none"
          /\ pc' = "parsed"
     ELSE Raise(DictError(doc[1]))
  /\ UNCHANGED <<args, gen_locals, clock, first, others>>

\* ------------------------------------------------------------ files and the command line
\* json.dumps(payload, indent=2, ensure_ascii=False) + "\n": the text of a document.
json_dumps(payload) == [kind |-> "json", value |-> payload]

\* A text that is no JSON at all.
Garbage == [kind |-> "garbage", value |-> <<>>]

\* The exception json.loads raises on `text`, or "none".
JsonError(text) == IF text.kind = "json" THEN "none" ELSE "JSONDecodeError"

json_loads(text) == text.value

Paths ==
  { "old.json", "bare.json", "empty.json", "missing.json", "broken.json", "nope.json",
    "shape.json", "notes.txt", "new.json", "NEW.JSON", "fresh.txt" }

\* Path(path).suffix
Suffix(path) ==
  CASE path \in {"notes.txt", "fresh.txt"} -> ".txt"
    [] path = "NEW.JSON" -> ".JSON"
    [] OTHER -> ".json"

\* str.lower on a suffix
SuffixLower(suffix) == IF suffix = ".JSON" THEN ".json" ELSE suffix

\* A document saved by an earlier run.
OldDoc ==
  [ title |-> "Old Cup",
    description |-> "Before",
    generated_at |-> Some([sec |-> 5, frac |-> Some(250000)]),
    meta |-> [ theme |-> "garlemald", seed |-> Some(1), levels |-> <<2>>,
               short_prefix |-> "IGL", generated_using |-> "ffxiv_pyramid",
               custom_division_names |-> <<"Top Flight">> ],
    divisions |-> << [ level |-> JInt(1), name |-> "Top Flight",
                       short_name |-> Some("IGL L1"),
                       teams |-> <<DocTeamA, DocTeamB>> ] >> ]

\* The same with `levels` an empty list (or null) in meta.
EmptyDoc == [OldDoc EXCEPT !.meta = [theme |-> "garlemald", levels |-> <<>>]]

\* A document with no meta at all.
BareDoc == [title |-> "Bare", divisions |-> <<>>]

\* A document whose meta names a theme nobody registered.
NopeDoc == [OldDoc EXCEPT !.meta = [theme |-> "nope", levels |-> <<1>>]]

\* A document one of whose divisions has no name.
ShapeDoc ==
  [OldDoc EXCEPT !.divisions = << [level |-> JInt(1), teams |-> <<DocTeamB>>] >>]

\* The files before the run.
Disk0 ==
  [ path \in Paths |->
      CASE path = "old.json" -> Some(json_dumps(OldDoc))
        [] path = "notes.txt" -> Some(json_dumps(OldDoc))
        [] path = "bare.json" -> Some(json_dumps(BareDoc))
        [] path = "empty.json" -> Some(json_dumps(EmptyDoc))
        [] path = "nope.json" -> Some(json_dumps(NopeDoc))
        [] path = "shape.json" -> Some(json_dumps(ShapeDoc))
        [] path = "broken.json" -> Some(Garbage)
        [] OTHER -> None ]

\* The exception load_pyramid raises on `path`, or "none".
LoadError(fs, path) ==
  IF IsNone(fs[path]) THEN "FileNotFoundError"
  ELSE IF JsonError(fs[path][1]) # "none" THEN JsonError(fs[path][1])
  ELSE DictError(json_loads(fs[path][1]))

\* What load_pyramid returns where it raises nothing.
load_pyramid(fs, path) == dict_to_pyramid(json_loads(fs[path][1]))

\* Writes first, checks the extension afterwards.
save_unchecked(fs, p, path) ==
  [ error |-> IF SuffixLower(Suffix(path)) # ".json" THEN "ValueError" ELSE "none",
    files |-> [fs EXCEPT ![path] = Some(json_dumps(pyramid_to_dict(p)))] ]

\* save_pyramid: the exception it raises, or "none", and the files it leaves.
save_pyramid(fs, p, path) ==
  IF SuffixLower(Suffix(path)) # ".json"
  THEN [error |-> "ValueError", files |-> fs]
  ELSE [error |-> "none",
        files |-> [fs EXCEPT ![path] = Some(json_dumps(pyramid_to_dict(p)))]]

NoOutcome == [error |-> "none", message |-> ""]

\* The text of the exceptions cli.py and io.py raise themselves.
Message(error) ==
  CASE error = "SystemExit" ->
         "The template pyramid does not contain level metadata. Provide --levels explicitly."
    [] error = "ValueError" -> "The app currently writes JSON. Use a .json file extension."
    [] OTHER -> ""

NoCli ==
  [ command |-> "none", source |-> "old.json", output |-> None, levels |-> None,
    theme |-> None, seed |-> None, division_names |-> None, title |-> None,
    description |-> None, preview |-> FALSE ]

\* What --seed, --title, --description and --division-name are given together.
CliOptions ==
  { [seed |-> Some(42), title |-> None, description |-> None, division_names |-> None],
    [seed |-> None, title |-> Some("New Cup"), description |-> Some(""),
     division_names |-> Some(<<"First">>)] }

\* generate <output> --levels ... : the Namespace handed to _handle_generate
\* by the parser, or by a caller that builds one.
GenerateInputs ==
  { [ command |-> "generate", source |-> "old.json", output |-> Some(o),
      levels |-> Some(l), theme |-> Some(t), seed |-> c.seed,
      division_names |-> c.division_names, title |-> c.title,
      description |-> c.description, preview |-> pv ] :
    o \in {"new.json", "NEW.JSON", "old.json", "notes.txt", "fresh.txt"},
    l \in {<<>>, <<0>>, <<2>>, <<1, 1>>},
    t \in {"garlemald", "nope"},
    c \in CliOptions,
    pv \in BOOLEAN }

\* resample <source> [--output] [--levels ...] ...
ResampleInputs ==
  { [ command |-> "resample", source |-> src, output |-> o, levels |-> l,
      theme |-> t, seed |-> c.seed, division_names |-> c.division_names,
      title |-> c.title, description |-> c.description, preview |-> pv ] :
    src \in {"old.json", "bare.json", "empty.json", "missing.json", "broken.json",
             "nope.json", "shape.json", "notes.txt"},
    o \in {None, Some("new.json"), Some("fresh.txt")},
    l \in {None, Some(<<1>>)},
    t \in {None, Some("garlemald")},
    c \in CliOptions,
    pv \in BOOLEAN }

\* random.randint(1, 999999)
RandomSeeds == {1, 999999}

Idle ==
  /\ pc = "idle"
  /\ args = NoArgs
  /\ idx = 1
  /\ teams = <<>>
  /\ divisions = <<>>
  /\ used_names = {}
  /\ cur = NoTeam
  /\ rng = 1
  /\ stream = <<>>
  /\ clock = 0
  /\ pyramid = None
  /\ err = "none"
  /\ first = None
  /\ doc = None
  /\ source = None

Init ==
  /\ Idle
  /\ naming = NoNaming
  /\ building = NoBuilding
  /\ cli = NoCli
  /\ files = Disk0
  /\ cpc = "off"
  /\ outcome = NoOutcome

Next ==
  \/ Call
  \/ BuildDivision
  \/ DrawLocation
  \/ DrawMascot
  \/ DrawAdjective
  \/ DrawForm
  \/ DrawSuffix
  \/ DrawInspiration
  \/ DrawTemplate
  \/ Return
  \/ CallAgain
  \/ BuildByHand
  \/ ToDict
  \/ ReadDoc
  \/ FromDict

Spec == Init /\ [][Next]_vars

\* ------------------------------------------------------------ _division_name on its own
NamingLevels == 1..MaxRoman \cup {42, 1996}

NamingCustoms ==
  { None, Some(<<>>), Some(<<"Top Flight">>), Some(<<"", "Second Tier", "Third Tier">>) }

NameDivision ==
  /\ IsNone(naming.out)
  /\ naming' = [naming EXCEPT
                  !.out = Some(_division_name(THEMES[naming.theme], naming.level,
                                              naming.custom))]
  /\ UNCHANGED <<pc, args, gen_locals, clock, pyramid, err, first, io_vars, building, cli_vars>>

InitNames ==
  /\ Idle
  /\ building = NoBuilding
  /\ cli = NoCli
  /\ files = Disk0
  /\ cpc = "off"
  /\ outcome = NoOutcome
  /\ naming \in { [theme |-> t, level |-> l, custom |-> c, out |-> None] :
                   t \in DOMAIN THEMES, l \in NamingLevels, c \in NamingCustoms }

NextNames == NameDivision

SpecNames == InitNames /\ [][NextNames]_vars

\* ------------------------------------------------------------ the naming loop on its own
\* The base names _build_team forms from the vocabulary of `theme`.
BaseNames(theme) ==
  { BaseName([location |-> theme.locations[l], mascot |-> theme.mascots[m],
              adjective |-> theme.adjectives[a]], r) :
      l \in 1..Len(theme.locations), m \in 1..Len(theme.mascots),
      a \in 1..Len(theme.adjectives), r \in RandomValues }

\* The names the loop can give to a team of base name `base`.
Candidates(base) ==
  {base} \cup { base \o _EXTRA_TEAM_SUFFIXES[i] : i \in 1..Len(_EXTRA_TEAM_SUFFIXES) }

LoopTheme == THEMES["garlemald"]

\* The sets used_names can be when a team is named: a suffixed name is only
\* ever given after its base name was taken.
UsedNameSets ==
  { u \in SUBSET (UNION { Candidates(b) : b \in BaseNames(LoopTheme) }) :
      \A b \in BaseNames(LoopTheme) : (Candidates(b) \cap u # {}) => b \in u }

\* Lines 63-64: one turn of the loop, the draw giving the suffix of index i.
RetrySuffix(i) ==
  /\ ~building.named
  /\ building.name \in building.used_names
  /\ building' = [building EXCEPT !.name = building.base_name \o _EXTRA_TEAM_SUFFIXES[i]]
  /\ UNCHANGED <<pc, args, gen_locals, clock, pyramid, err, first, io_vars, naming, cli_vars>>

Retry == \E i \in 1..Len(_EXTRA_TEAM_SUFFIXES) : RetrySuffix(i)

\* Line 65: the loop is left and the name taken.
TakeName ==
  /\ ~building.named
  /\ building.name \notin building.used_names
  /\ building' = [building EXCEPT !.used_names = building.used_names \cup {building.name},
                                  !.named = TRUE]
  /\ UNCHANGED <<pc, args, gen_locals, clock, pyramid, err, first, io_vars, naming, cli_vars>>

\* Line 61: name = base_name, for every base name and every set of used names.
InitLoop ==
  /\ Idle
  /\ naming = NoNaming
  /\ cli = NoCli
  /\ files = Disk0
  /\ cpc = "off"
  /\ outcome = NoOutcome
  /\ building \in { [used_names |-> u, base_name |-> b, name |-> b, named |-> FALSE] :
                     u \in UsedNameSets, b \in BaseNames(LoopTheme) }

NextLoop ==
  \/ Retry
  \/ TakeName

\* The loop keeps running while its condition holds, and every suffix is
\* drawn again and again.
LoopFairness ==
  /\ WF_vars(TakeName)
  /\ \A i \in 1..Len(_EXTRA_TEAM_SUFFIXES) : SF_vars(RetrySuffix(i))

SpecLoop == InitLoop /\ [][NextLoop]_vars /\ LoopFairness

\* ------------------------------------------------------------ the commands
\* The run ends with the exception `error`.
Fail(error) ==
  /\ cpc' = "failed"
  /\ outcome' = [error |-> error, message |-> Message(error)]

\* generate_pyramid is entered with `a`: it raises at once or starts drawing.
Generate(a) ==
  /\ Enter(a)
  /\ IF pc' = "raised"
     THEN Fail(err')
     ELSE cpc' = "generating" /\ outcome' = NoOutcome

\* _generate_from_args, up to the call of generate_pyramid.
HandleGenerate ==
  /\ cpc = "start"
  /\ cli.command = "generate"
  /\ \E seed \in (IF IsNone(cli.seed) THEN RandomSeeds ELSE {cli.seed[1]}) :
       Generate([ level_sizes |-> cli.levels[1], theme |-> cli.theme[1],
                  seed |-> Some(seed), title |-> cli.title,
                  description |-> cli.description, custom |-> cli.division_names,
                  extra_meta |-> None ])
  /\ UNCHANGED <<clock, first, io_vars, naming, building, cli, files>>

\* The template's meta first, the command line otherwise.
ChosenLevelsMetaFirst(given, meta) ==
  IF Len(Get(meta, "levels", <<>>)) > 0 THEN meta["levels"]
  ELSE IF IsNone(given) THEN <<>> ELSE given[1]

\* Line 173: the command line first, the template's meta otherwise.
ChosenLevels(given, meta) ==
  IF ~IsNone(given) /\ Len(given[1]) > 0 THEN given[1] ELSE Get(meta, "levels", <<>>)

\* _handle_resample, up to the call of generate_pyramid.
HandleResample ==
  /\ cpc = "start"
  /\ cli.command = "resample"
  /\ IF LoadError(files, cli.source) # "none"
     THEN /\ Fail(LoadError(files, cli.source))
          /\ UNCHANGED <<pc, args, gen_locals, pyramid, err>>
     ELSE LET template == load_pyramid(files, cli.source)
              meta == template.meta
              theme == OrElse(cli.theme, Get(meta, "theme", "eorzea"))
              levels == ChosenLevels(cli.levels, meta)
              division_names ==
                IF ~IsNone(cli.division_names) /\ Len(cli.division_names[1]) > 0
                THEN cli.division_names
                ELSE IF "custom_division_names" \in DOMAIN meta
                THEN Some(meta["custom_division_names"])
                ELSE None
          IN IF Len(levels) = 0
             THEN /\ Fail("SystemExit")
                  /\ UNCHANGED <<pc, args, gen_locals, pyramid, err>>
             ELSE \E seed \in (IF IsNone(cli.seed) THEN RandomSeeds ELSE {cli.seed[1]}) :
                    Generate([ level_sizes |-> levels, theme |-> theme,
                               seed |-> Some(seed),
                               title |-> Some(OrElse(cli.title, template.title)),
                               description |->
                                 Some(OrElse(cli.description, template.description)),
                               custom |-> division_names,
                               extra_meta |-> Some([resampled_from |-> cli.source]) ])
  /\ UNCHANGED <<clock, first, io_vars, naming, building, cli, files>>

\* Where the handler writes: the output of generate; for resample --output,
\* or else the source.
Target ==
  IF cli.command = "generate" THEN cli.output[1]
  ELSE IF Truthy(cli.output) THEN cli.output[1] ELSE cli.source

\* The handler after generate_pyramid returned: the preview, or save_pyramid.
Finish ==
  /\ cpc = "generating"
  /\ pc = "done"
  /\ IF cli.preview
     THEN /\ cpc' = "previewed"
          /\ outcome' = NoOutcome
          /\ files' = files
     ELSE LET saved == save_pyramid(files, pyramid[1], Target)
          IN /\ files' = saved.files
             /\ IF saved.error # "none"
                THEN Fail(saved.error)
                ELSE cpc' = "saved" /\ outcome' = NoOutcome

\* Lines 162-165 of _handle_generate.
FinishGenerate ==
  /\ cli.command = "generate"
  /\ Finish
  /\ UNCHANGED <<pc, args, gen_locals, clock, pyramid, err, first, io_vars, naming, building, cli>>

\* Lines 189-195 of _handle_resample.
FinishResample ==
  /\ cli.command = "resample"
  /\ Finish
  /\ UNCHANGED <<pc, args, gen_locals, clock, pyramid, err, first, io_vars, naming, building, cli>>

InitCli ==
  /\ Idle
  /\ naming = NoNaming
  /\ building = NoBuilding
  /\ cli \in GenerateInputs \cup ResampleInputs
  /\ files = Disk0
  /\ cpc = "start"
  /\ outcome = NoOutcome

NextCli ==
  \/ HandleGenerate
  \/ HandleResample
  \/ BuildDivision
  \/ DrawLocation
  \/ DrawMascot
  \/ DrawAdjective
  \/ DrawForm
  \/ DrawSuffix
  \/ DrawInspiration
  \/ DrawTemplate
  \/ Return
  \/ FinishGenerate
  \/ FinishResample

SpecCli == InitCli /\ [][NextCli]_vars

\* ------------------------------------------------------------ properties
Returned == pc = "done"
Result == pyramid[1]

TeamNames(p) ==
  { <<i, j, p.divisions[i].teams[j].name>> :
      <<i, j>> \in { <<i, j>> \in (1..Len(p.divisions)) \X (1..MaxTotal + 1) :
                       j <= Len(p.divisions[i].teams) } }

\* C1: two calls of generate_pyramid with the same arguments and the same
\* seeded stream return the same divisions (level, name, short_name) holding
\* the same teams in the same order (name, location, inspiration, notes);
\* title, description and meta agree too, and only generated_at may differ.
C1_Deterministic ==
  (Returned /\ ~IsNone(first)) =>
    /\ Result.divisions = first[1].divisions
    /\ Result.title = first[1].title
    /\ Result.description = first[1].description
    /\ Result.meta = first[1].meta

\* The second call returned a pyramid of at least two teams, one of them
\* renamed after a collision, stamped later than the first.
C1_Witness ==
  /\ Returned
  /\ ~IsNone(first)
  /\ Cardinality(TeamNames(Result)) >= 2
  /\ \E x \in TeamNames(Result) : x[3][Len(x[3])] \in {"FC", "United"}
  /\ Result.generated_at # first[1].generated_at

\* C2: no two teams of a returned pyramid share a name, in one division or
\* across divisions, and the set of used names is exactly the names given.
C2_UniqueNames ==
  Returned =>
    /\ \A x, y \in TeamNames(Result) : x[3] = y[3] => x = y
    /\ used_names = { x[3] : x \in TeamNames(Result) }

\* Two divisions hold teams of the same base name, the later one renamed.
C2_Witness ==
  /\ Returned
  /\ Len(Result.divisions) = 2
  /\ \E a \in 1..Len(Result.divisions[1].teams), b \in 1..Len(Result.divisions[2].teams) :
       \E i \in 1..Len(_EXTRA_TEAM_SUFFIXES) :
         Result.divisions[2].teams[b].name =
           Result.divisions[1].teams[a].name \o _EXTRA_TEAM_SUFFIXES[i]

LevelsStrict(p) ==
  \A i \in 1..Len(p.divisions) - 1 : p.divisions[i].level < p.divisions[i + 1].level

LevelsAscending(p) ==
  \A i \in 1..Len(p.divisions) - 1 : p.divisions[i].level <= p.divisions[i + 1].level

TeamsOrdered(p) ==
  \A i \in 1..Len(p.divisions) :
    \A j \in 1..Len(p.divisions[i].teams) - 1 :
      ~StrLess(p.divisions[i].teams[j + 1].name, p.divisions[i].teams[j].name)

\* The levels of the document at hand, as read, are pairwise distinct.
DocLevelsDistinct ==
  LET ds == Get(doc[1], "divisions", <<>>)
  IN \A i, j \in 1..Len(ds) : ToInt(ds[i]["level"]) = ToInt(ds[j]["level"]) => i = j

C4_RoundTrip ==
  ~IsNone(source) =>
    /\ pc \in {"dumped", "parsed"}
    /\ pc = "parsed" => Result = PyramidSort(source[1])

\* A hand-built pyramid with its divisions out of order, a timestamp with a
\* fraction, a team without notes and a division without short_name went
\* through the round trip.
C4_Witness ==
  /\ pc = "parsed"
  /\ ~IsNone(source)
  /\ IsNone(first) /\ Len(args.level_sizes) = 0
  /\ Len(source[1].divisions) = 2
  /\ source[1].divisions[1].level > source[1].divisions[2].level
  /\ ~IsNone(source[1].generated_at) /\ source[1].generated_at[1].micro # 0
  /\ \E i \in 1..2 : IsNone(source[1].divisions[i].short_name)
  /\ \E i \in 1..2 : \E j \in 1..Len(source[1].divisions[i].teams) :
       IsNone(source[1].divisions[i].teams[j].notes)

BadSizes(level_sizes) ==
  Len(level_sizes) = 0 \/ \E i \in 1..Len(level_sizes) : level_sizes[i] <= 0

\* C5: generate_pyramid fails with an InvalidInput error (ValueError) and
\* returns no pyramid whenever level_sizes is empty or holds a value that is
\* zero or negative.
C5_NonPositiveRejected ==
  (pc \in {"done", "raised"} /\ IsNone(doc) /\ ThemeKnown(args.theme)
     /\ BadSizes(args.level_sizes)) =>
    (pc = "raised" /\ err = "ValueError" /\ IsNone(pyramid))

\* What the theme key a caller passes resolves to.
ResolvedKey ==
  [eorzea |-> "eorzea", far_east |-> "far_east", garlemald |-> "garlemald"]
  @@ ("Far-East" :> "far_east")

ExpectedShortNames ==
  [ eorzea |-> <<"EFL L1", "EFL L2", "EFL L3", "EFL L4">>,
    far_east |-> <<"FEF L1", "FEF L2", "FEF L3", "FEF L4">>,
    garlemald |-> <<"IGL L1", "IGL L2", "IGL L3", "IGL L4">> ]

\* C6: for accepted level_sizes of length k the returned pyramid has exactly
\* k divisions, of levels 1..k, the division of level i holding exactly
\* level_sizes[i] teams and the short name "<short prefix> L<i>".
C6_Shape ==
  Returned =>
    /\ Len(Result.divisions) = Len(args.level_sizes)
    /\ \A i \in 1..Len(Result.divisions) :
         /\ Result.divisions[i].level = i
         /\ Len(Result.divisions[i].teams) = args.level_sizes[i]
         /\ Result.divisions[i].short_name = Some(ExpectedShortNames[ResolvedKey[args.theme]][i])

GeneratedKeys == {"theme", "seed", "levels", "short_prefix", "generated_using"}

CustomSupplied == ~IsNone(args.custom) /\ Len(args.custom[1]) > 0

ExtraMeta == IF IsNone(args.extra_meta) THEN <<>> ELSE args.extra_meta[1]

\* C8: the meta of a generated pyramid holds the resolved theme key, the seed
\* passed in, the level sizes as given, the theme's short prefix and the
\* provenance tag; custom_division_names exactly when custom names were
\* supplied; and every key of extra_meta with extra_meta's value, whatever
\* the generated value of that key was.
C8_Meta ==
  Returned =>
    LET meta == Result.meta
        expected == [ theme |-> ResolvedKey[args.theme], seed |-> args.seed,
                      levels |-> args.level_sizes,
                      short_prefix |-> THEMES[ResolvedKey[args.theme]].short_prefix,
                      generated_using |-> "ffxiv_pyramid" ]
    IN /\ DOMAIN meta =
            GeneratedKeys \cup DOMAIN ExtraMeta
            \cup (IF CustomSupplied THEN {"custom_division_names"} ELSE {})
       /\ \A k \in DOMAIN ExtraMeta : meta[k] = ExtraMeta[k]
       /\ \A k \in GeneratedKeys \ DOMAIN ExtraMeta : meta[k] = expected[k]
       /\ (CustomSupplied /\ "custom_division_names" \notin DOMAIN ExtraMeta) =>
            meta["custom_division_names"] = args.custom[1]

\* A pyramid was generated with an extra_meta that replaces the seed.
C8_Witness ==
  /\ Returned
  /\ "seed" \in DOMAIN ExtraMeta
  /\ Result.meta["seed"] # args.seed
  /\ Result.meta["seed"] = ExtraMeta["seed"]

\* A pyramid was generated with custom names and an extra_meta of other keys.
C8_WitnessCustom ==
  /\ Returned
  /\ CustomSupplied
  /\ DOMAIN ExtraMeta # {}
  /\ "custom_division_names" \in DOMAIN Result.meta

\* The classical numerals, written out.
ClassicalNumeral(n) ==
  CASE n = 1 -> "I" [] n = 2 -> "II" [] n = 3 -> "III" [] n = 4 -> "IV" [] n = 5 -> "V"
    [] n = 6 -> "VI" [] n = 7 -> "VII" [] n = 8 -> "VIII" [] n = 9 -> "IX" [] n = 10 -> "X"
    [] n = 11 -> "XI" [] n = 12 -> "XII" [] n = 40 -> "XL" [] n = 1994 -> "MCMXCIV"

HasCustomEntry(custom, level) == ~IsNone(custom) /\ level <= Len(custom[1])

\* C7: the division of level L is named by the custom name at position L,
\* verbatim, whenever there is one; otherwise by the theme's premier title
\* (L = 1), its championship title (L = 2), or "<region_name>
\* <lower_division_title> <R>" with R the classical Roman numeral of L - 2.
C7_DivisionName ==
  ~IsNone(naming.out) =>
    LET theme == THEMES[naming.theme]
        level == naming.level
    IN naming.out[1] =
         IF HasCustomEntry(naming.custom, level) THEN naming.custom[1][level]
         ELSE IF level = 1 THEN theme.premier_title
         ELSE IF level = 2 THEN theme.championship_title
         ELSE theme.region_name \o " " \o theme.lower_division_title \o " "
              \o ClassicalNumeral(level - 2)

\* Level 11 of a pyramid whose custom names end before it was named IX.
C7_Witness ==
  /\ naming.level = 11
  /\ naming.theme = "garlemald"
  /\ naming.custom = Some(<<"", "Second Tier", "Third Tier">>)
  /\ naming.out = Some("Imperial Legion Divisions IX")


\* The meta of the resample template as it stood before the run.
TemplateMeta == Get(json_loads(Disk0[cli.source][1]), "meta", <<>>)

LevelsGiven == ~IsNone(cli.levels)
LevelsRecorded == Len(Get(TemplateMeta, "levels", <<>>)) > 0
Generating == args # NoArgs

\* C9: once resample has loaded its template, generate_pyramid is entered only
\* when --levels is given or the template's meta records level sizes, with the
\* command-line sizes when both exist; with neither (or an empty recorded list)
\* the run ends with the SystemExit that asks for --levels, and
\* generate_pyramid was never entered.
C9_ResampleLevels ==
  (cli.command = "resample" /\ cpc # "start"
     /\ LoadError(Disk0, cli.source) = "none") =>
    IF LevelsGiven
    THEN Generating /\ args.level_sizes = cli.levels[1]
    ELSE IF LevelsRecorded
    THEN Generating /\ args.level_sizes = TemplateMeta["levels"]
    ELSE /\ cpc = "failed"
         /\ outcome.error = "SystemExit"
         /\ outcome.message =
              "The template pyramid does not contain level metadata. Provide --levels explicitly."
         /\ ~Generating
         /\ pc = "idle"
         /\ IsNone(pyramid)

\* A template whose meta records an empty list, resampled without --levels.
C9_Witness ==
  /\ cli.command = "resample"
  /\ cli.source = "empty.json"
  /\ ~LevelsGiven
  /\ cpc = "failed"
  /\ outcome.error = "SystemExit"

\* Both exist and the command line won.
C9_WitnessBoth ==
  /\ cli.command = "resample"
  /\ cli.source = "old.json"
  /\ cli.levels = Some(<<1>>)
  /\ cpc = "saved"
  /\ Len(pyramid[1].divisions) = 1
  /\ Len(pyramid[1].divisions[1].teams) = 1

\* The exceptions a run of generate or resample ends with.
RunErrors ==
  { "ValueError", "KeyError", "FileNotFoundError", "JSONDecodeError", "SystemExit" }

\* C10: the files are those before the run until the handler has saved; a
\* run that ended with an exception, and a run with --preview, leave every
\* file as it was; once the handler has saved, generate_pyramid had returned
\* its pyramid, the target's extension is .json in some case, only the target
\* changed and it holds the returned pyramid's document, and the target of
\* resample without --output is the source.
C10_NoPartialSuccess ==
  /\ cpc \in {"start", "generating", "failed", "previewed", "saved"}
  /\ cpc = "failed" => outcome.error \in RunErrors
  /\ (cpc # "saved" \/ cli.preview) => files = Disk0
  /\ cpc = "saved" =>
       /\ pc = "done"
       /\ SuffixLower(Suffix(Target)) = ".json"
       /\ \A path \in Paths \ {Target} : files[path] = Disk0[path]
       /\ files[Target] = Some(json_dumps(pyramid_to_dict(pyramid[1])))
       /\ (cli.command = "resample" /\ IsNone(cli.output)) => Target = cli.source
       /\ cli.command = "generate" => Target = cli.output[1]

\* generate_pyramid returned, the target's extension was refused, and the
\* file of that name is the one that was there.
C10_Witness ==
  /\ cli.command = "resample"
  /\ cli.source = "notes.txt"
  /\ IsNone(cli.output)
  /\ ~cli.preview
  /\ pc = "done"
  /\ cpc = "failed"
  /\ outcome.error = "ValueError"
  /\ files = Disk0

\* resample without --output has overwritten its source.
C10_WitnessSaved ==
  /\ cli.command = "resample"
  /\ cli.source = "old.json"
  /\ IsNone(cli.output)
  /\ cpc = "saved"
  /\ files["old.json"] # Disk0["old.json"]

\* Each way of ending with an exception that the runs here meet.
C10_WitnessEmptyLevels ==
  cli.command = "generate" /\ cli.levels = Some(<<>>) /\ cpc = "failed"
    /\ outcome.error = "ValueError" /\ pc = "raised"

C10_WitnessUnknownTheme ==
  cli.command = "resample" /\ cli.source = "nope.json" /\ cpc = "failed"
    /\ outcome.error = "KeyError" /\ pc = "raised"

C10_WitnessMissing ==
  cli.source = "missing.json" /\ cpc = "failed" /\ outcome.error = "FileNotFoundError"

C10_WitnessBroken ==
  cli.source = "broken.json" /\ cpc = "failed" /\ outcome.error = "JSONDecodeError"

C10_WitnessShape ==
  cli.source = "shape.json" /\ cpc = "failed" /\ outcome.error = "KeyError" /\ pc = "idle"

C10_WitnessPreview ==
  cli.preview /\ cpc = "previewed" /\ pc = "done"


\* The level values int() turns into an integer.
Coercible(v) == v.t \in {"int", "float"} \/ (v.t = "str" /\ v.s \in {"2", " 1 ", "-1"})

\* The division lacks its name or a usable level, or one of its teams lacks
\* its name.
DivisionMalformed(d) ==
  \/ "name" \notin DOMAIN d
  \/ "level" \notin DOMAIN d
  \/ ("level" \in DOMAIN d /\ ~Coercible(d["level"]))
  \/ ("teams" \in DOMAIN d /\ \E j \in 1..Len(d["teams"]) : "name" \notin DOMAIN d["teams"][j])

DocMalformed ==
  LET ds == Get(doc[1], "divisions", <<>>)
  IN \E i \in 1..Len(ds) : DivisionMalformed(ds[i])

\* The exceptions that stand for a malformed document.
MalformedErrors == {"KeyError", "ValueError", "TypeError"}

\* C11: dict_to_pyramid returns a pyramid exactly for the documents none of
\* whose divisions lacks a name or a level that int() accepts and none of
\* whose teams lacks a name; on every other document it raises KeyError,
\* ValueError or TypeError and returns no pyramid, whatever the other
\* divisions and teams hold.
C11_MalformedRejected ==
  (~IsNone(doc) /\ pc \in {"parsed", "raised"}) =>
    IF DocMalformed
    THEN pc = "raised" /\ err \in MalformedErrors /\ IsNone(pyramid)
    ELSE pc = "parsed" /\ err = "none" /\ ~IsNone(pyramid)

\* A document whose first division is sound and whose second holds a team
\* without a name was refused.
C11_Witness ==
  /\ pc = "raised"
  /\ ~IsNone(doc)
  /\ LET ds == Get(doc[1], "divisions", <<>>)
     IN /\ Len(ds) = 2
        /\ ~DivisionMalformed(ds[1])
        /\ "name" \in DOMAIN ds[2] /\ "level" \in DOMAIN ds[2] /\ Coercible(ds[2]["level"])
        /\ \E j \in 1..Len(ds[2]["teams"]) : "name" \notin DOMAIN ds[2]["teams"][j]
  /\ err = "KeyError"
  /\ IsNone(pyramid)

\* Each other way of being malformed was refused with its exception.
C11_WitnessLevelText ==
  pc = "raised" /\ ~IsNone(doc) /\ err = "ValueError"

C11_WitnessLevelNull ==
  pc = "raised" /\ ~IsNone(doc) /\ err = "TypeError"


\* C12: whatever names are in use and whatever the base name, the naming
\* loop eventually leaves with a name that was not in use.
C12_LoopEnds == <>building.named

\* The base name and every suffixed form of it are in use.
Exhausted(base, used) == Candidates(base) \subseteq used

\* The loop ends whenever some form of the base name is free.
C12_EndsWhenFree ==
  ~Exhausted(building.base_name, building.used_names) ~> building.named

\* Once every form of the base name is in use the loop is never left.
C12_NeverEndsWhenExhausted ==
  [][(~building.named /\ Exhausted(building.base_name, building.used_names))
       => ~building'.named]_vars

\* generate_pyramid reaches such a set of used names: one call returned three
\* teams of the same base name.
C12_ExhaustedReached ==
  /\ Returned
  /\ \E b \in used_names : Exhausted(b, used_names)


\* The stream read by the book.  A draw at position q on a list of n entries.
DrewFrom(q, n) == q <= Len(stream) /\ stream[q][1] = n /\ stream[q][2] \in 1..n

RECURSIVE ReadSuffixes(_, _, _, _)
\* From position q: one suffix draw for as long as the name is in use.
ReadSuffixes(base, name, used, q) ==
  IF name \notin used THEN [ok |-> TRUE, name |-> name, q |-> q]
  ELSE IF ~DrewFrom(q, Len(_EXTRA_TEAM_SUFFIXES)) THEN [ok |-> FALSE, name |-> name, q |-> q]
  ELSE ReadSuffixes(base, base \o _EXTRA_TEAM_SUFFIXES[stream[q][2]], used, q + 1)

\* The team that the draws from position p on describe, with `used` in use:
\* location, mascot, adjective, the form, the suffixes, inspiration, template.
ReadTeam(theme, p, used) ==
  IF ~( /\ DrewFrom(p, Len(theme.locations))
        /\ DrewFrom(p + 1, Len(theme.mascots))
        /\ DrewFrom(p + 2, Len(theme.adjectives))
        /\ p + 3 <= Len(stream) /\ stream[p + 3][1] = 0 )
  THEN [ok |-> FALSE, team |-> <<>>, next |-> p, attempts |-> 0]
  ELSE LET location == theme.locations[stream[p][2]]
           mascot == theme.mascots[stream[p + 1][2]]
           adjective == theme.adjectives[stream[p + 2][2]]
           base == IF stream[p + 3][2] < 55 THEN location \o mascot
                   ELSE location \o adjective \o mascot
           named == ReadSuffixes(base, base, used, p + 4)
           q == named.q
       IN IF ~( /\ named.ok
                /\ DrewFrom(q, Len(theme.inspirations))
                /\ DrewFrom(q + 1, Len(theme.notes_templates)) )
          THEN [ok |-> FALSE, team |-> <<>>, next |-> p, attempts |-> 0]
          ELSE LET inspiration == theme.inspirations[stream[q][2]]
                   template == theme.notes_templates[stream[q + 1][2]]
               IN [ ok |-> TRUE,
                    team |-> [ name |-> named.name, location |-> location,
                               inspiration |-> inspiration,
                               notes |-> Some(Format(template, inspiration, location)) ],
                    next |-> q + 2,
                    attempts |-> q - (p + 4) ]

RECURSIVE ReadRun(_, _, _, _, _, _, _)
\* Division after division in ascending level, team after team, from
\* position p: the teams of each level in the order drawn, the position
\* after the last draw, and the draws each team took.
ReadRun(theme, sizes, level, p, used, ts, out) ==
  IF level > Len(sizes) THEN [out EXCEPT !.next = p]
  ELSE IF Len(ts) >= sizes[level]
  THEN ReadRun(theme, sizes, level + 1, p, used, <<>>,
               [out EXCEPT !.levels = Append(out.levels, ts)])
  ELSE LET t == ReadTeam(theme, p, used)
       IN IF ~t.ok THEN [out EXCEPT !.ok = FALSE]
          ELSE ReadRun(theme, sizes, level, t.next, used \cup {t.team.name},
                       Append(ts, t.team),
                       [out EXCEPT !.draws = Append(out.draws, t.next - p),
                                   !.attempts = Append(out.attempts, t.attempts)])

StreamRead ==
  ReadRun(THEMES[ResolvedKey[args.theme]], args.level_sizes, 1, 1, {}, <<>>,
          [ok |-> TRUE, levels |-> <<>>, next |-> 1, draws |-> <<>>, attempts |-> <<>>])

\* C13: the draws of one generation are one stream read in a fixed order:
\* levels ascending, the teams of a level one after another, and per team
\* location, mascot, adjective, the form (two words below 0.55, three
\* otherwise), one suffix per collision attempt, inspiration, template; a team
\* of c attempts takes 6 + c draws, nothing else is drawn, and the team holds
\* the location drawn first, in its field and in its notes.
C13_DrawOrder ==
  Returned =>
    LET run == StreamRead
    IN /\ run.ok
       /\ run.next = Len(stream) + 1
       /\ rng = Len(stream) + 1
       /\ Len(divisions) = Len(args.level_sizes)
       /\ \A i \in 1..Len(divisions) :
            /\ divisions[i].level = i
            /\ divisions[i].teams = run.levels[i]
       /\ \A k \in 1..Len(run.draws) : run.draws[k] = 6 + run.attempts[k]

\* A call over two levels returned three teams of one base name: the second
\* took one suffix draw, the third two.
C13_Witness ==
  /\ Returned
  /\ IsNone(first)
  /\ Len(args.level_sizes) = 2
  /\ Len(stream) = 21
  /\ StreamRead.ok
  /\ StreamRead.attempts = <<0, 1, 2>>

=============================================================================
